---- MODULE Spec2Model ----
(***************************************************************************)
(* The vault commands of src/frontend/src-tauri/src/lib.rs: nuke_vault     *)
(* and check_vault_exists, run by callers against one storage root.  A     *)
(* handler is a sequence of filesystem calls (Path::exists,                *)
(* std::fs::remove_file); each call is one atomic step, so that calls of   *)
(* several callers interleave at that granularity.                         *)
(***************************************************************************)
EXTENDS Naturals, Sequences, FiniteSets, TLC

VARIABLES
    fs,        \* the names of the files present in the storage root
    rootOk,    \* app.path().app_local_data_dir() resolves
    statOk,    \* a metadata query on the storage root can succeed
    pc,        \* per caller: the position inside the running handler
    op,        \* per caller: the command of the current (or last) call
    uid,       \* per caller: the user_id argument of that call
    res,       \* per caller: the value the call returned
    fs0,       \* per caller: the files present when the call started
    tried,     \* per caller: the files remove_file was called on, in order
    never,     \* per caller: at some instant of the call no file of the user existed
    prev,      \* per caller: <<op, uid, res>> of the call before the current one
    refused,   \* some remove_file of a present file was refused
    calls      \* calls started so far

vars == <<fs, rootOk, statOk, pc, op, uid, res, fs0, tried, never, prev, refused, calls>>

\* Bound on the number of calls started in one behaviour.
MaxCalls == 2

Procs == {1, 2}

UserIds == {"", "legacy", "alice"}

----------------------------------------------------------------------------
\* Path arithmetic

VaultName(user_id) == "vault_" \o user_id \o ".hold"

LegacyName == "vault.hold"

SnapshotName == "snapshot.hold"

SaltName == "salt.txt"

AllFiles == {VaultName(u) : u \in UserIds} \cup {LegacyName, SnapshotName, SaltName}

IsLegacyUser(user_id) == user_id = "legacy" \/ user_id = ""

\* The files nuke_vault(user_id) deletes, in the order it deletes them.
NukeOrder(user_id) ==
    IF IsLegacyUser(user_id)
    THEN <<VaultName(user_id), LegacyName, SnapshotName>>
    ELSE <<VaultName(user_id)>>

Range(s) == {s[i] : i \in 1..Len(s)}

Targets(user_id) == Range(NukeOrder(user_id))

----------------------------------------------------------------------------
\* The filesystem calls

\* Path::exists: true iff the metadata query succeeds.
Exists(present, ok, f) == ok /\ f \in present

\* A deletion that moves the file aside instead of removing it.
UnlinkRename(present, f) == (present \ {f}) \cup {f \o ".bak"}

\* std::fs::remove_file on a file that is present and not refused.
Unlink(present, f) == present \ {f}

\* The user has no file that counts for check_vault_exists.
NoneLeft(present, user_id) == Targets(user_id) \cap present = {}

----------------------------------------------------------------------------
\* Results, as the front-end receives them

OkUnit == "Ok(())"

OkBool(b) == IF b THEN "Ok(true)" ELSE "Ok(false)"

ErrUnknownPath == "Err(unknown path)"

ErrDenied == "Err(permission denied)"

ErrNotFound == "Err(no such file)"

Errors == {ErrUnknownPath, ErrDenied, ErrNotFound}

Running(q) == pc[q] \notin {"idle", "done"}

\* The history of every running call after the files become newfs.
Observe(newfs) ==
    never' = [q \in Procs |->
                IF Running(q) THEN never[q] \/ NoneLeft(newfs, uid[q]) ELSE never[q]]

\* The caller moves to the next filesystem call of its handler.
Goto(p, label) ==
    /\ pc' = [pc EXCEPT ![p] = label]
    /\ UNCHANGED res

\* The handler returns r.
Return(p, r) ==
    /\ pc' = [pc EXCEPT ![p] = "done"]
    /\ res' = [res EXCEPT ![p] = r]

----------------------------------------------------------------------------
\* Invocation of a command by the front-end

Call(p, cmd, user_id) ==
    /\ pc[p] \in {"idle", "done"}
    /\ calls < MaxCalls
    /\ calls' = calls + 1
    /\ pc' = [pc EXCEPT ![p] = IF cmd = "nuke_vault" THEN "n_root" ELSE "c_root"]
    /\ op' = [op EXCEPT ![p] = cmd]
    /\ uid' = [uid EXCEPT ![p] = user_id]
    /\ res' = [res EXCEPT ![p] = "none"]
    /\ prev' = [prev EXCEPT ![p] = <<op[p], uid[p], res[p]>>]
    /\ fs0' = [fs0 EXCEPT ![p] = fs]
    /\ tried' = [tried EXCEPT ![p] = <<>>]
    /\ never' = [never EXCEPT ![p] = NoneLeft(fs, user_id)]
    /\ UNCHANGED <<fs, rootOk, statOk, refused>>

----------------------------------------------------------------------------
\* nuke_vault

\* let local_data_dir = app.path().app_local_data_dir().map_err(..)?;
NukeResolve(p) ==
    /\ pc[p] = "n_root"
    /\ IF rootOk THEN Goto(p, "n_exists_primary") ELSE Return(p, ErrUnknownPath)
    /\ UNCHANGED <<fs, rootOk, statOk, op, uid, fs0, tried, never, prev, refused, calls>>

\* The legacy branch taken for every user_id.
NukeAfterPrimaryAlways(p) == Goto(p, "n_exists_legacy")

\* What follows the deletion of the primary file: the legacy branch or Ok(()).
NukeAfterPrimary(p) ==
    IF IsLegacyUser(uid[p]) THEN Goto(p, "n_exists_legacy") ELSE Return(p, OkUnit)

\* remove_file called without the exists() guard.
NukeExistsUnchecked(p, f, remove, after) ==
    /\ Goto(p, remove)
    /\ UNCHANGED <<fs, rootOk, statOk, op, uid, fs0, tried, never, prev, refused, calls>>

\* if path.exists() { .. }: a present file leads to its remove_file, an
\* absent one to what follows the if.
NukeExists(p, f, remove, after) ==
    /\ IF Exists(fs, statOk, f) THEN Goto(p, remove) ELSE after
    /\ UNCHANGED <<fs, rootOk, statOk, op, uid, fs0, tried, never, prev, refused, calls>>

\* A refused deletion that is swallowed: the handler goes on to the next file.
NukeRemoveContinue(p, f, after) ==
    /\ tried' = [tried EXCEPT ![p] = Append(@, f)]
    /\ \E grant \in BOOLEAN :
         IF f \notin fs
         THEN /\ grant
              /\ Return(p, ErrNotFound)
              /\ UNCHANGED <<fs, never, refused>>
         ELSE IF grant
              THEN /\ fs' = Unlink(fs, f)
                   /\ after
                   /\ Observe(fs')
                   /\ UNCHANGED refused
              ELSE /\ after
                   /\ refused' = TRUE
                   /\ UNCHANGED <<fs, never>>
    /\ UNCHANGED <<rootOk, statOk, op, uid, fs0, prev, calls>>

\* std::fs::remove_file(&path).map_err(|e| e.to_string())?; the unlink of an
\* absent file fails, and that of a present one may be refused.
NukeRemove(p, f, after) ==
    /\ tried' = [tried EXCEPT ![p] = Append(@, f)]
    /\ \E grant \in BOOLEAN :
         IF f \notin fs
         THEN /\ grant
              /\ Return(p, ErrNotFound)
              /\ UNCHANGED <<fs, never, refused>>
         ELSE IF grant
              THEN /\ fs' = Unlink(fs, f)
                   /\ after
                   /\ Observe(fs')
                   /\ UNCHANGED refused
              ELSE /\ Return(p, ErrDenied)
                   /\ refused' = TRUE
                   /\ UNCHANGED <<fs, never>>
    /\ UNCHANGED <<rootOk, statOk, op, uid, fs0, prev, calls>>

NukeExistsPrimary(p) ==
    /\ pc[p] = "n_exists_primary"
    /\ NukeExists(p, VaultName(uid[p]), "n_remove_primary", NukeAfterPrimary(p))

\* The primary deletion with its error ignored (let _ = remove_file(..)).
NukeRemovePrimaryIgnored(p) ==
    /\ pc[p] = "n_remove_primary"
    /\ NukeRemoveContinue(p, VaultName(uid[p]), NukeAfterPrimary(p))

NukeRemovePrimary(p) ==
    /\ pc[p] = "n_remove_primary"
    /\ NukeRemove(p, VaultName(uid[p]), NukeAfterPrimary(p))

NukeExistsLegacy(p) ==
    /\ pc[p] = "n_exists_legacy"
    /\ NukeExists(p, LegacyName, "n_remove_legacy", Goto(p, "n_exists_snapshot"))

\* A return right after vault.hold is deleted, snapshot.hold forgotten.
NukeRemoveLegacyReturn(p) ==
    /\ pc[p] = "n_remove_legacy"
    /\ NukeRemove(p, LegacyName, Return(p, OkUnit))

NukeRemoveLegacy(p) ==
    /\ pc[p] = "n_remove_legacy"
    /\ NukeRemove(p, LegacyName, Goto(p, "n_exists_snapshot"))

NukeExistsSnapshot(p) ==
    /\ pc[p] = "n_exists_snapshot"
    /\ NukeExists(p, SnapshotName, "n_remove_snapshot", Return(p, OkUnit))

NukeRemoveSnapshot(p) ==
    /\ pc[p] = "n_remove_snapshot"
    /\ NukeRemove(p, SnapshotName, Return(p, OkUnit))

----------------------------------------------------------------------------
\* check_vault_exists

\* A resolution failure degraded to Ok(false).
CheckResolveSwallow(p) ==
    /\ pc[p] = "c_root"
    /\ IF rootOk THEN Goto(p, "c_exists_primary") ELSE Return(p, OkBool(FALSE))
    /\ UNCHANGED <<fs, rootOk, statOk, op, uid, fs0, tried, never, prev, refused, calls>>

\* let local_data_dir = app.path().app_local_data_dir().map_err(..)?;
CheckResolve(p) ==
    /\ pc[p] = "c_root"
    /\ IF rootOk THEN Goto(p, "c_exists_primary") ELSE Return(p, ErrUnknownPath)
    /\ UNCHANGED <<fs, rootOk, statOk, op, uid, fs0, tried, never, prev, refused, calls>>

\* The fallback taken for every user_id.
CheckFallbackAnyUser(present, user_id) == ~present

\* The fallback taken for "legacy" only.
CheckFallbackLegacyOnly(present, user_id) == ~present /\ user_id = "legacy"

\* if !vault_path.exists() && (user_id == "legacy" || user_id.is_empty())
CheckFallback(present, user_id) == ~present /\ IsLegacyUser(user_id)

CheckExistsPrimary(p) ==
    /\ pc[p] = "c_exists_primary"
    /\ IF CheckFallback(Exists(fs, statOk, VaultName(uid[p])), uid[p])
       THEN Goto(p, "c_exists_legacy")
       ELSE Goto(p, "c_exists_again")
    /\ UNCHANGED <<fs, rootOk, statOk, op, uid, fs0, tried, never, prev, refused, calls>>

\* return Ok(legacy.exists() || snapshot.exists()): the left operand
CheckExistsLegacy(p) ==
    /\ pc[p] = "c_exists_legacy"
    /\ IF Exists(fs, statOk, LegacyName)
       THEN Return(p, OkBool(TRUE))
       ELSE Goto(p, "c_exists_snapshot")
    /\ UNCHANGED <<fs, rootOk, statOk, op, uid, fs0, tried, never, prev, refused, calls>>

\* return Ok(legacy.exists() || snapshot.exists()): the right operand
CheckExistsSnapshot(p) ==
    /\ pc[p] = "c_exists_snapshot"
    /\ Return(p, OkBool(Exists(fs, statOk, SnapshotName)))
    /\ UNCHANGED <<fs, rootOk, statOk, op, uid, fs0, tried, never, prev, refused, calls>>

\* Ok(vault_path.exists())
CheckExistsAgain(p) ==
    /\ pc[p] = "c_exists_again"
    /\ Return(p, OkBool(Exists(fs, statOk, VaultName(uid[p]))))
    /\ UNCHANGED <<fs, rootOk, statOk, op, uid, fs0, tried, never, prev, refused, calls>>

----------------------------------------------------------------------------
\* Specifications

Commands == {"nuke_vault", "check_vault_exists"}

Step(p) ==
    \/ \E cmd \in Commands, user_id \in UserIds : Call(p, cmd, user_id)
    \/ NukeResolve(p)
    \/ NukeExistsPrimary(p)
    \/ NukeRemovePrimary(p)
    \/ NukeExistsLegacy(p)
    \/ NukeRemoveLegacy(p)
    \/ NukeExistsSnapshot(p)
    \/ NukeRemoveSnapshot(p)
    \/ CheckResolve(p)
    \/ CheckExistsPrimary(p)
    \/ CheckExistsLegacy(p)
    \/ CheckExistsSnapshot(p)
    \/ CheckExistsAgain(p)

InitCallers ==
    /\ fs \in SUBSET AllFiles
    /\ pc = [p \in Procs |-> "idle"]
    /\ op = [p \in Procs |-> "none"]
    /\ uid = [p \in Procs |-> ""]
    /\ res = [p \in Procs |-> "none"]
    /\ fs0 = [p \in Procs |-> fs]
    /\ tried = [p \in Procs |-> <<>>]
    /\ never = [p \in Procs |-> FALSE]
    /\ prev = [p \in Procs |-> <<"none", "", "none">>]
    /\ refused = FALSE
    /\ calls = 0

\* After run()'s setup: the storage root resolved (the expect did not panic).
Init == InitCallers /\ rootOk = TRUE /\ statOk = TRUE

\* A command invoked under any environment condition.
InitEnv == InitCallers /\ rootOk \in BOOLEAN /\ statOk \in BOOLEAN

\* Callers interleave at the granularity of single filesystem calls.
Next == \E p \in Procs : Step(p)

\* One caller: each call runs to its return before the next one starts.
NextSeq == Step(1)

Spec == Init /\ [][Next]_vars

SpecSeq == Init /\ [][NextSeq]_vars

SpecEnv == InitEnv /\ [][NextSeq]_vars

----------------------------------------------------------------------------
\* The claims.  The file names of a user are written out here as the
\* specification writes them, apart from the handlers' own path arithmetic.

PrimaryFile(user_id) == "vault_" \o user_id \o ".hold"

KeyedUser(user_id) == user_id # "" /\ user_id # "legacy"

\* The files that count for a user, in the order nuke_vault is to delete them.
FilesOf(user_id) ==
    IF KeyedUser(user_id)
    THEN <<PrimaryFile(user_id)>>
    ELSE <<PrimaryFile(user_id), "vault.hold", "snapshot.hold">>

AnyPresent(user_id) == \E i \in 1..Len(FilesOf(user_id)) : FilesOf(user_id)[i] \in fs

Done(p, cmd) == pc[p] = "done" /\ op[p] = cmd

\* C1: for a user_id that is neither "" nor "legacy", check_vault_exists
\* returns true exactly when vault_<user_id>.hold exists, whatever the state
\* of vault.hold and snapshot.hold.
C1_KeyedExists ==
    \A p \in Procs :
        Done(p, "check_vault_exists") /\ KeyedUser(uid[p]) =>
            /\ res[p] \in {"Ok(true)", "Ok(false)"}
            /\ (res[p] = "Ok(true)") <=> (PrimaryFile(uid[p]) \in fs)

C1_Witness ==
    \E p \in Procs :
        /\ Done(p, "check_vault_exists") /\ uid[p] = "alice"
        /\ res[p] = "Ok(false)"
        /\ "vault.hold" \in fs /\ "snapshot.hold" \in fs

\* C2: for user_id "" or "legacy", check_vault_exists returns true exactly
\* when vault_<user_id>.hold, vault.hold or snapshot.hold exists.
C2_LegacyExists ==
    \A p \in Procs :
        Done(p, "check_vault_exists") /\ ~KeyedUser(uid[p]) =>
            /\ res[p] \in {"Ok(true)", "Ok(false)"}
            /\ (res[p] = "Ok(true)") <=>
                   (\/ PrimaryFile(uid[p]) \in fs
                    \/ "vault.hold" \in fs
                    \/ "snapshot.hold" \in fs)

C2_Witness ==
    \E p \in Procs :
        /\ Done(p, "check_vault_exists") /\ uid[p] = ""
        /\ res[p] = "Ok(true)"
        /\ "vault_.hold" \notin fs /\ "vault.hold" \notin fs /\ "snapshot.hold" \in fs

\* C3: a nuke_vault call, successful or failed, changes the existence of no
\* file but vault_<user_id>.hold and, for "" or "legacy" only, vault.hold and
\* snapshot.hold; a check_vault_exists call changes no file.
C3_Frame ==
    \A p \in Procs :
        /\ op[p] = "nuke_vault" =>
               \A f \in fs \cup fs0[p] :
                   (f \in fs) # (f \in fs0[p]) =>
                       \/ f = PrimaryFile(uid[p])
                       \/ ~KeyedUser(uid[p]) /\ f \in {"vault.hold", "snapshot.hold"}
        /\ op[p] = "check_vault_exists" => fs = fs0[p]

C3_Witness ==
    \E p \in Procs :
        /\ Done(p, "nuke_vault") /\ uid[p] = "alice" /\ res[p] = "Ok(())"
        /\ "vault_alice.hold" \in fs0[p] /\ "vault_alice.hold" \notin fs
        /\ {"vault.hold", "snapshot.hold", "vault_.hold", "salt.txt"} \subseteq fs

\* C4: after a successful nuke_vault(user_id), the files that count for
\* user_id are all absent, and a check_vault_exists(user_id) called next
\* returns false.
C4_NukeThenCheck ==
    \A p \in Procs :
        /\ Done(p, "nuke_vault") /\ res[p] = "Ok(())" => ~AnyPresent(uid[p])
        /\ Done(p, "check_vault_exists") /\ prev[p] = <<"nuke_vault", uid[p], "Ok(())">>
               => res[p] = "Ok(false)"

C4_Witness ==
    \E p \in Procs :
        /\ Done(p, "check_vault_exists") /\ uid[p] = ""
        /\ prev[p] = <<"nuke_vault", "", "Ok(())">>
        /\ res[p] = "Ok(false)"
        /\ "vault_alice.hold" \in fs

\* C5: a nuke_vault call that finds none of its files returns success and
\* leaves the files as they were; a nuke_vault run directly after a
\* successful one for the same user_id returns no error.
C5_IdempotentOnAbsence ==
    \A p \in Procs :
        Done(p, "nuke_vault") =>
            /\ (\A i \in 1..Len(FilesOf(uid[p])) : FilesOf(uid[p])[i] \notin fs0[p])
                   => res[p] = "Ok(())" /\ fs = fs0[p]
            /\ prev[p] = <<"nuke_vault", uid[p], "Ok(())">> => res[p] = "Ok(())"

C5_Witness ==
    \E p \in Procs :
        /\ Done(p, "nuke_vault") /\ uid[p] = "legacy"
        /\ prev[p] = <<"nuke_vault", "legacy", "Ok(())">>
        /\ res[p] = "Ok(())"
        /\ fs = fs0[p] /\ fs # {}

\* C6, as claimed: check_vault_exists returns a boolean under every
\* environment condition, an unresolvable storage root included.
C6_NeverFails ==
    \A p \in Procs :
        Done(p, "check_vault_exists") => res[p] \in {"Ok(true)", "Ok(false)"}

\* C6, as amended: check_vault_exists returns an error exactly when the
\* storage root cannot be resolved; with the root resolved it returns a
\* boolean, and false when the existence checks fail.
C6_FailsOnlyOnRoot ==
    \A p \in Procs :
        Done(p, "check_vault_exists") =>
            /\ ~rootOk => res[p] = "Err(unknown path)"
            /\ rootOk => res[p] \in {"Ok(true)", "Ok(false)"}
            /\ rootOk /\ ~statOk => res[p] = "Ok(false)"

C6_Witness ==
    \E p \in Procs :
        /\ Done(p, "check_vault_exists") /\ uid[p] = "alice"
        /\ rootOk /\ ~statOk
        /\ "vault_alice.hold" \in fs
        /\ res[p] = "Ok(false)"

\* C7: no step of nuke_vault or check_vault_exists creates a file: the files
\* present after a step are among those present before it.
C7_NeverCreates == [][fs' \subseteq fs]_vars

C7_Witness ==
    \E p, q \in Procs :
        /\ p # q
        /\ Done(p, "nuke_vault") /\ Done(q, "nuke_vault")
        /\ res[p] = "Ok(())" /\ res[q] \in {"Err(permission denied)"}
        /\ fs # fs0[p] /\ fs \subseteq fs0[p]

\* C8: a nuke_vault call that returns an error stopped at the first file, in
\* the order vault_<user_id>.hold, vault.hold, snapshot.hold, whose deletion
\* failed: that file is still there, every earlier one is gone, and no later
\* one was deleted or attempted.
C8_FailFast ==
    \A p \in Procs :
        Done(p, "nuke_vault") /\ res[p] # "Ok(())" =>
            /\ res[p] = "Err(permission denied)"
            /\ \E i \in 1..Len(FilesOf(uid[p])) :
                   /\ tried[p] # <<>>
                   /\ tried[p][Len(tried[p])] = FilesOf(uid[p])[i]
                   /\ FilesOf(uid[p])[i] \in fs
                   /\ \A j \in 1..(i - 1) : FilesOf(uid[p])[j] \notin fs
                   /\ \A j \in (i + 1)..Len(FilesOf(uid[p])) :
                          /\ \A k \in 1..Len(tried[p]) : tried[p][k] # FilesOf(uid[p])[j]
                          /\ (FilesOf(uid[p])[j] \in fs) <=> (FilesOf(uid[p])[j] \in fs0[p])

C8_Witness ==
    \E p \in Procs :
        /\ Done(p, "nuke_vault") /\ uid[p] = ""
        /\ res[p] = "Err(permission denied)"
        /\ tried[p] = <<"vault_.hold", "vault.hold">>
        /\ "vault_.hold" \notin fs
        /\ "vault.hold" \in fs /\ "snapshot.hold" \in fs

\* C9: when two nuke_vault calls for the same user_id have run and no
\* deletion of a present file was refused, both return success.
C9_ConcurrentNukeSucceeds ==
    \A p, q \in Procs :
        /\ p # q
        /\ Done(p, "nuke_vault") /\ Done(q, "nuke_vault")
        /\ uid[p] = uid[q]
        /\ ~refused
        => res[p] = "Ok(())" /\ res[q] = "Ok(())"

\* C10: a check_vault_exists call returns false only if at some instant
\* between its call and its return none of the files that count for user_id
\* existed, and true only if at some such instant one of them existed.
C10_SingleInstant ==
    \A p \in Procs :
        Done(p, "check_vault_exists") =>
            /\ res[p] = "Ok(false)" => never[p]
            /\ res[p] = "Ok(true)" =>
                   \E i \in 1..Len(FilesOf(uid[p])) : FilesOf(uid[p])[i] \in fs0[p]

====
